---- MODULE Spec2Model ----
(***************************************************************************)
(* The task runners of anadama2 (src/anadama2/runners.py): the serial      *)
(* runner, the parallel local runner and the grid runner, driving a ready  *)
(* deque of task numbers over a DAG, with worker processes that receive    *)
(* payloads from a work queue and put results on a result queue.           *)
(*                                                                         *)
(* Abstractions:                                                           *)
(*  - a multiprocessing.Queue is a FIFO whose get() holds the queue's read *)
(*    lock (_rlock) while it waits for an item; put() is visible at once;  *)
(*  - an error string is modelled by whether it is null (err = FALSE) or   *)
(*    not; every error string the runners build is non-empty, so the truth *)
(*    test "result.error" and "error is not None" agree;                   *)
(*  - Process.terminate() stops the worker process at once;                *)
(*  - a grid pool has its own worker class and the default rate of one     *)
(*    worker; it is process-backed, except for one thread-backed pool in   *)
(*    ThreadSpec, whose threads run worker_run_loop on queue.Queue.        *)
(*                                                                         *)
(* Specifications:                                                         *)
(*  - Spec: a run of one of the three runners on a deque seeded in         *)
(*    reverse topological order;                                           *)
(*  - SerialSpec: the serial runner on a deque in any order;               *)
(*  - IndepSpec: the parallel runner on independent tasks, one per worker; *)
(*  - ThreadSpec: the grid runner with a thread-backed pool;               *)
(*  - ExecSpec: the action executor applied to one task;                   *)
(*  - AddSpec: sequences of GridRunner.add_worker calls;                   *)
(*  - AgainSpec: run_tasks called a second time on the same runner;        *)
(*  - CmdSpec: Run._execute of src/anadama/commands.py building the        *)
(*    argument list of the runner class.                                   *)
(***************************************************************************)
EXTENDS Integers, Sequences, FiniteSets, TLC

\* ---------------------------------------------------------------- bounds
NTasks == 3
Jobs == 2

\* ---------------------------------------------------------- configuration
Tasks == 0 .. (NTasks - 1)

\* task_no of exception_result(exc) when exc has no task_no attribute
None == -1

\* every possible edge u -> v of the DAG; task numbers are a topological order
AllEdges == {e \in Tasks \X Tasks : e[1] < e[2]}

\* the DAGs the runs are taken over: no edge, one edge, a chain, a fork from
\* task 0, a join into the last task, and every edge
Dags ==
  { {},
    {<<0, 1>>},
    {e \in AllEdges : e[2] = e[1] + 1},
    {e \in AllEdges : e[1] = 0},
    {e \in AllEdges : e[2] = NTasks - 1},
    AllEdges }

Runners == {"serial", "parallel", "grid"}

\* the pools registered with GridRunner.add_worker, name -> rate
GridPools == {"fast", "slow"}
LocalPool == "local"
\* ParallelLocalRunner has jobs workers; a grid pool has add_worker's default rate
DefaultRate == 1
Rate(p) == IF p = LocalPool THEN Jobs ELSE DefaultRate

PoolsOf(r) ==
  CASE r = "serial" -> {}
    [] r = "parallel" -> {LocalPool}
    [] r = "grid" -> GridPools

AllPools == GridPools \cup {LocalPool}

WorkersOf(r) == {w \in AllPools \X (1 .. (Jobs + DefaultRate)) : w[1] \in PoolsOf(r) /\ w[2] <= Rate(w[1])}

VARIABLES
  runner,          \* which runner class drives the deque
  quit_early,      \* BaseRunner.quit_early
  dag,             \* ctx.dag, a set of edges <<u, v>>
  routes,          \* GridRunner.routes: task_no -> <<pool name, extra>>
  default_worker,  \* GridRunner.default_worker, a pool name or "none"
  worker_config,   \* GridRunner._worker_config: pool name -> <<worker class, rate>>
  calls,           \* the calls of GridRunner.add_worker made so far
  exec,            \* the call of _run_task_locally under way
  cmd,             \* the call of Run._execute under way
  task_idx_deque,  \* the ready deque; pop() takes the last element
  completed_tasks, \* ctx.completed_tasks
  failed_tasks,    \* ctx.failed_tasks
  n_to_do,         \* self.n_to_do
  started,         \* self.started
  cpc,             \* the coordinator's position in run_tasks
  passLeft,        \* iterations left in the current fill pass
  cur,             \* the task or pool the coordinator is working on
  work_q,          \* pool -> sequence of payloads
  result_q,        \* pool -> sequence of TaskResults
  rlock,           \* pool -> holder of work_q._rlock, or of work_q.mutex of a
                   \* thread-backed pool (Free, Coord or a worker)
  lock,            \* pool -> holder of the pool's reporter lock
  wpc,             \* worker -> position in worker_run_loop
  wtask,           \* worker -> the task it has deserialized
  qcycle,          \* the position of GridRunner._qcycle
  polls,           \* polls made in the current round of _get_result
  hist             \* what has been observed: calls of the hooks, puts, runs, reports

vars == <<runner, quit_early, dag, routes, default_worker, worker_config, calls,
          exec, cmd, task_idx_deque,
          completed_tasks, failed_tasks, n_to_do, started, cpc, passLeft, cur,
          work_q, result_q, rlock, lock, wpc, wtask, qcycle, polls, hist>>

config == <<runner, quit_early, dag, routes, default_worker, worker_config>>

\* the state of the operations that run_tasks takes no part in
outside == <<calls, exec, cmd>>

\* the extra of a payload: null, or the extra arguments of an explicit route
NoExtra == "null"
ExtraArgs == "extra_args"

\* the values of GridRunner.routes the runs are taken over: no explicit route,
\* or the first or the last task routed to the pool "slow"
Routes ==
  { [t \in ts |-> <<"slow", ExtraArgs>>] : ts \in {{}, {0}, {NTasks - 1}} }

\* ------------------------------------------------------------ TaskResult
\* TaskResult(task_no, error, dep_keys, dep_compares); parent is the task the
\* error of a parent-failed result names.
TaskResult(task_no, err, parent) == [task_no |-> task_no, err |-> err, parent |-> parent]

exception_result_without_error(task_no) == TaskResult(task_no, FALSE, None)

exception_result(task_no) == TaskResult(task_no, TRUE, None)

bad_parent_failed_result(idx, parent_idx) == TaskResult(idx, TRUE, idx)

parent_failed_result(idx, parent_idx) == TaskResult(idx, TRUE, parent_idx)

\* the result of _run_task_locally: a success, or exception_result(TaskFailed(.., task_no))
RunResults(idx) == {TaskResult(idx, FALSE, None), exception_result(idx)}

predecessors(idx) == {u \in Tasks : <<u, idx>> \in dag}

RECURSIVE ancestors(_)
ancestors(idx) ==
  predecessors(idx) \cup UNION {ancestors(u) : u \in predecessors(idx)}

\* ---------------------------------------------------- RunContext's hooks
\* ctx._handle_task_result: the task of the result becomes terminal; a result
\* without task_no makes no task terminal.
HandleResultCompleted(result) ==
  IF result.task_no # None /\ ~result.err
    THEN completed_tasks \cup {result.task_no} ELSE completed_tasks

HandleResultFailed(result) ==
  IF result.task_no # None /\ result.err
    THEN failed_tasks \cup {result.task_no} ELSE failed_tasks

\* ---------------------------------------------------------- observations
NoHist ==
  [ nstarted |-> [t \in Tasks |-> 0],      \* calls of _handle_task_started(t)
    nresult |-> [t \in Tasks |-> 0],       \* calls of _handle_task_result with task_no t
    result |-> [t \in Tasks |-> TaskResult(None, FALSE, None)],  \* the last of them
    startedAtResult |-> [t \in Tasks |-> 0], \* nstarted[t] when t's result was handled
    nullResults |-> 0,                     \* results handled with task_no None
    sent |-> [t \in Tasks |-> 0],          \* payloads of t put on a work queue
    ran |-> [t \in Tasks |-> 0],           \* executions of t's actions
    undeserialized |-> {},                 \* tasks whose payload failed to load
    skipped |-> [p \in GridPools |-> 0],   \* results taken from other pools while p's waits
    polledEmpty |-> {},                    \* pools polled and found empty in this round
    putOn |-> [t \in Tasks |-> {}],        \* the <<pool, extra>> t's payload was put with
    raisedBy |-> "none",                   \* what made run_tasks raise ValueError
    obtained |-> [p \in AllPools |-> 0],   \* task payloads workers got from p's work queue
    drainStarted |-> {},                   \* pools whose work queue terminate() has locked
    passStart |-> << >>,                   \* the deque when the last fill pass began
    passPops |-> << >>,                    \* the tasks that pass has popped, in order
    passes |-> 0,                          \* fill passes begun since the last result receive
    again |-> FALSE,                       \* this is a later call of run_tasks on the runner
    reports |-> << >>,                     \* the reporter's last two events, in order
    poolReports |-> [p \in AllPools |-> << >>] ]  \* the same, of the workers of one pool

ObserveNothing(h, idx) == h

ObserveStarted(h, idx) == [h EXCEPT !.nstarted[idx] = @ + 1]

ObserveResult(h, r) ==
  IF r.task_no = None
    THEN [h EXCEPT !.nullResults = @ + 1]
    ELSE [h EXCEPT !.nresult[r.task_no] = @ + 1,
                   !.result[r.task_no] = r,
                   !.startedAtResult[r.task_no] = h.nstarted[r.task_no]]

ObservePass(h, deque) ==
  [h EXCEPT !.passStart = deque, !.passPops = << >>, !.passes = @ + 1]

ObservePop(h, idx) == [h EXCEPT !.passPops = Append(@, idx)]

ObserveReceived(h) == [h EXCEPT !.passes = 0]

ObserveSent(h, idx, name, extra) ==
  [h EXCEPT !.sent[idx] = @ + 1, !.putOn[idx] = @ \cup {<<name, extra>>}]

ObserveRaised(h, why) == [h EXCEPT !.raisedBy = why]

ObserveRan(h, idx) == [h EXCEPT !.ran[idx] = @ + 1]

LastTwo(log, e) == IF Len(log) = 2 THEN <<log[2], e>> ELSE Append(log, e)

ObserveReport(h, w, idx, kind) ==
  LET e == [worker |-> w, task |-> idx, kind |-> kind] IN
  [h EXCEPT !.reports = LastTwo(@, e), !.poolReports[w[1]] = LastTwo(@, e)]

\* ------------------------------------------------------------ lock holders
Free == <<"free", 0>>
Coord == <<"coord", 0>>

\* ---------------------------------------------------------- worker classes
\* the worker classes registered with add_worker: two subclasses of
\* multiprocessing.Process and a subclass of threading.Thread
ProcessClasses == {"FastWorker", "SlowWorker"}
ThreadClasses == {"ThreadWorker"}

\* add_worker(FastWorker, "fast", default=...) and add_worker(SlowWorker, "slow")
ProcessPools == [p \in GridPools |-> <<(IF p = "fast" THEN "FastWorker" ELSE "SlowWorker"), DefaultRate>>]

\* "hasattr(work_q, "_rlock")": the pool's workers are processes and its queues
\* multiprocessing queues; otherwise they are threads on queue.Queue
IsProc(p) == IF p = LocalPool THEN TRUE ELSE worker_config[p][1] \in ProcessClasses

\* no call of _run_task_locally is under way
NoCall == [pc |-> "none"]

\* no call of Run._execute is under way
NoCommand == [pc |-> "none"]

\* ------------------------------------------------------------------ Init
\* the deque in reverse topological order: pop() yields 0, 1, 2, ...
SeededDeque == [i \in 1 .. NTasks |-> NTasks - i]

Init ==
  /\ runner \in Runners
  /\ quit_early \in BOOLEAN
  /\ dag \in Dags
  /\ routes \in (IF runner = "grid" THEN Routes ELSE {<< >>})
  /\ default_worker \in (IF runner = "grid" THEN {"fast", "none"} ELSE {"none"})
  /\ worker_config = (IF runner = "grid" THEN ProcessPools ELSE << >>)
  /\ calls = << >>
  /\ exec = NoCall
  /\ cmd = NoCommand
  /\ task_idx_deque = SeededDeque
  /\ completed_tasks = {}
  /\ failed_tasks = {}
  /\ n_to_do = 0
  /\ started = FALSE
  /\ cpc = "run_tasks"
  /\ passLeft = 0
  /\ cur = None
  /\ work_q = [p \in PoolsOf(runner) |-> << >>]
  /\ result_q = [p \in PoolsOf(runner) |-> << >>]
  /\ rlock = [p \in PoolsOf(runner) |-> Free]
  /\ lock = [p \in PoolsOf(runner) |-> Free]
  /\ wpc = [w \in WorkersOf(runner) |-> "new"]
  /\ wtask = [w \in WorkersOf(runner) |-> None]
  /\ qcycle = 1
  /\ polls = 0
  /\ hist = NoHist

\* --------------------------------------------------------- deque helpers
\* deque.pop() returns the last element and removes it
Back(q) == q[Len(q)]

KeepBack(q) == q

PopBack(q) == SubSeq(q, 1, Len(q) - 1)

\* deque.appendleft(x)
AppendRight(q, x) == q \o <<x>>

AppendLeft(q, x) == <<x>> \o q

\* ------------------------------------------------------ SerialLocalRunner
\* the gate of SerialLocalRunner.run_tasks: fail a task with a failed parent,
\* run every other task
SerialGate(idx) ==
  IF predecessors(idx) \cap failed_tasks # {} THEN "parent_failed" ELSE "dispatch"

\* "if self.quit_early and bool(result.error)"
NeverQuit(result) == FALSE

QuitNow(result) == quit_early /\ result.err

\* one iteration of "while task_idx_deque"
SerialStep ==
  /\ runner = "serial"
  /\ cpc = "run_tasks"
  /\ task_idx_deque # << >>
  /\ LET idx == Back(task_idx_deque) IN
     /\ task_idx_deque' = PopBack(task_idx_deque)
     /\ IF SerialGate(idx) = "parent_failed"
          THEN \E p \in predecessors(idx) \cap failed_tasks :
                 LET r == parent_failed_result(idx, p) IN
                 /\ completed_tasks' = HandleResultCompleted(r)
                 /\ failed_tasks' = HandleResultFailed(r)
                 /\ hist' = ObserveResult(hist, r)
                 /\ cpc' = cpc
          ELSE \E r \in RunResults(idx) :
                 /\ completed_tasks' = HandleResultCompleted(r)
                 /\ failed_tasks' = HandleResultFailed(r)
                 /\ hist' = ObserveResult(ObserveRan(ObserveStarted(hist, idx), idx), r)
                 /\ cpc' = IF QuitNow(r) THEN "done" ELSE cpc
  /\ UNCHANGED <<config, outside, n_to_do, started, passLeft, cur, work_q, result_q,
                 rlock, lock, wpc, wtask, qcycle, polls>>

\* "while task_idx_deque" ends: run_tasks returns
SerialReturn ==
  /\ runner = "serial"
  /\ cpc = "run_tasks"
  /\ task_idx_deque = << >>
  /\ cpc' = "done"
  /\ UNCHANGED <<config, outside, task_idx_deque, completed_tasks, failed_tasks, n_to_do,
                 started, passLeft, cur, work_q, result_q, rlock, lock, wpc,
                 wtask, qcycle, polls, hist>>

\* ------------------------------------------------------------- payloads
\* (pkl, extra) put on a work queue: a pickled task, or the stop sentinel
TaskPayload(idx, extra) == [stop |-> FALSE, task |-> idx, extra |-> extra]
StopPayload == [stop |-> TRUE, task |-> None, extra |-> NoExtra]

\* a sequence of n copies of x
OneCopy(n, x) == <<x>>

Copies(n, x) == [i \in 1 .. n |-> x]

Unchanged_Workers == UNCHANGED <<lock, wpc, wtask>>
Unchanged_Grid == UNCHANGED <<qcycle, polls>>

\* --------------------------------------------------- ParallelLocalRunner
\* "self.n_to_do = len(task_idx_deque)"
ShortToDo(deque) == Len(deque) - 1

InitialToDo(deque) == Len(deque)

\* the gate of _fill_work_q (and of GridRunner._get_next_task)
GateNoDefer(idx) ==
  IF predecessors(idx) \cap failed_tasks # {} THEN "parent_failed" ELSE "dispatch"

Gate(idx) ==
  IF predecessors(idx) \cap failed_tasks # {} THEN "parent_failed"
  ELSE IF predecessors(idx) \ completed_tasks # {} THEN "defer"
  ELSE "dispatch"

\* run_tasks up to the loop
ParRunTasks ==
  /\ runner = "parallel"
  /\ cpc = "run_tasks"
  /\ n_to_do' = InitialToDo(task_idx_deque)
  /\ cpc' = "fill"
  /\ UNCHANGED <<config, outside, task_idx_deque, completed_tasks, failed_tasks, started,
                 passLeft, cur, work_q, result_q, rlock, hist>>
  /\ Unchanged_Workers /\ Unchanged_Grid

\* the iterations of one fill pass: "for _ in range(len(self.task_idx_deque))"
OneAtATime(deque) == IF deque = << >> THEN 0 ELSE 1

ShortPass(deque) == Len(deque) - 1

PassLength(deque) == Len(deque)

\* what _fill_work_q has reported and put for idx when cloudpickle.dumps is
\* called: nothing yet
StartedBeforeDumps(h, idx) == ObserveStarted(h, idx)

BeforeDumps(h, idx) == h

\* _fill_work_q: "for _ in range(len(self.task_idx_deque))"
ParFillBegin ==
  /\ runner = "parallel"
  /\ cpc = "fill"
  /\ passLeft' = PassLength(task_idx_deque)
  /\ cpc' = "pass"
  /\ hist' = ObservePass(hist, task_idx_deque)
  /\ UNCHANGED <<config, outside, task_idx_deque, completed_tasks, failed_tasks, n_to_do,
                 started, cur, work_q, result_q, rlock>>
  /\ Unchanged_Workers /\ Unchanged_Grid

\* one iteration of the loop of _fill_work_q
ParFillStep ==
  /\ runner = "parallel"
  /\ cpc = "pass"
  /\ passLeft > 0
  /\ passLeft' = passLeft - 1
  /\ LET idx == Back(task_idx_deque)
         h == ObservePop(hist, idx) IN
     CASE Gate(idx) = "parent_failed" ->
            \E p \in predecessors(idx) \cap failed_tasks :
              LET r == parent_failed_result(idx, p) IN
              /\ task_idx_deque' = PopBack(task_idx_deque)
              /\ completed_tasks' = HandleResultCompleted(r)
              /\ failed_tasks' = HandleResultFailed(r)
              /\ hist' = ObserveResult(h, r)
              /\ n_to_do' = n_to_do - 1
              /\ UNCHANGED <<cpc, cur, work_q>>
       [] Gate(idx) = "defer" ->
            /\ task_idx_deque' = AppendLeft(PopBack(task_idx_deque), idx)
            /\ hist' = h
            /\ UNCHANGED <<completed_tasks, failed_tasks, n_to_do, cpc, cur, work_q>>
       [] Gate(idx) = "dispatch" ->
            /\ task_idx_deque' = PopBack(task_idx_deque)
            /\ \/ \* cloudpickle.dumps raises: ValueError leaves run_tasks
                  /\ cpc' = "raised"
                  /\ cur' = idx
                  /\ hist' = ObserveRaised(BeforeDumps(h, idx), "serialize")
                  /\ UNCHANGED work_q
               \/ /\ hist' = ObserveSent(ObserveStarted(h, idx), idx, LocalPool, NoExtra)
                  /\ work_q' = [work_q EXCEPT ![LocalPool] = Append(@, TaskPayload(idx, NoExtra))]
                  /\ UNCHANGED <<cpc, cur>>
            /\ UNCHANGED <<completed_tasks, failed_tasks, n_to_do>>
  /\ UNCHANGED <<config, outside, started, result_q, rlock>>
  /\ Unchanged_Workers /\ Unchanged_Grid

\* the end of _fill_work_q starts the workers once; then "if self.n_to_do <= 0: break"
ParFillEnd ==
  /\ runner = "parallel"
  /\ cpc = "pass"
  /\ passLeft = 0
  /\ started' = TRUE
  /\ wpc' = IF started THEN wpc ELSE [w \in DOMAIN wpc |-> "idle"]
  /\ cpc' = IF n_to_do <= 0 THEN "cleanup" ELSE "wait"
  /\ UNCHANGED <<config, outside, task_idx_deque, completed_tasks, failed_tasks, n_to_do,
                 passLeft, cur, work_q, result_q, rlock, lock, wtask, hist>>
  /\ Unchanged_Grid

\* "result = self.result_q.get()", then the else branch and the quit_early test
ParGetResult ==
  /\ runner = "parallel"
  /\ cpc = "wait"
  /\ result_q[LocalPool] # << >>
  /\ LET r == Head(result_q[LocalPool]) IN
     /\ result_q' = [result_q EXCEPT ![LocalPool] = Tail(@)]
     /\ n_to_do' = n_to_do - 1
     /\ completed_tasks' = HandleResultCompleted(r)
     /\ failed_tasks' = HandleResultFailed(r)
     /\ hist' = ObserveReceived(ObserveResult(hist, r))
     /\ cpc' = IF QuitNow(r) THEN "terminate" ELSE "fill"
  /\ UNCHANGED <<config, outside, task_idx_deque, started, passLeft, cur, work_q, rlock>>
  /\ Unchanged_Workers /\ Unchanged_Grid

\* terminate: "self.work_q._rlock.acquire()"
AcquireNothing(p) == rlock

AcquireRLock(p) == [rlock EXCEPT ![p] = Coord]

ParTermAcquire ==
  /\ runner = "parallel"
  /\ cpc = "terminate"
  /\ rlock[LocalPool] = Free
  /\ rlock' = AcquireRLock(LocalPool)
  /\ hist' = [hist EXCEPT !.drainStarted = @ \cup {LocalPool}]
  /\ cpc' = "drain"
  /\ UNCHANGED <<config, outside, task_idx_deque, completed_tasks, failed_tasks, n_to_do,
                 started, passLeft, cur, work_q, result_q>>
  /\ Unchanged_Workers /\ Unchanged_Grid

\* terminate: one turn of "while self.work_q._reader.poll(): recv()"
ParTermDrain ==
  /\ runner = "parallel"
  /\ cpc = "drain"
  /\ work_q[LocalPool] # << >>
  /\ work_q' = [work_q EXCEPT ![LocalPool] = Tail(@)]
  /\ UNCHANGED <<config, outside, task_idx_deque, completed_tasks, failed_tasks, n_to_do,
                 started, cpc, passLeft, cur, result_q, rlock, hist>>
  /\ Unchanged_Workers /\ Unchanged_Grid

\* terminate: the queue is drained; terminate and join every worker, release
ParTermKill ==
  /\ runner = "parallel"
  /\ cpc = "drain"
  /\ work_q[LocalPool] = << >>
  /\ wpc' = [w \in DOMAIN wpc |-> "dead"]
  /\ rlock' = [rlock EXCEPT ![LocalPool] = Free]
  /\ cpc' = "cleanup"
  /\ UNCHANGED <<config, outside, task_idx_deque, completed_tasks, failed_tasks, n_to_do,
                 started, passLeft, cur, work_q, result_q, lock, wtask, hist>>
  /\ Unchanged_Grid

\* cleanup: one stop sentinel for every worker
ParCleanup ==
  /\ runner = "parallel"
  /\ cpc = "cleanup"
  /\ work_q' = [work_q EXCEPT ![LocalPool] = @ \o Copies(Jobs, StopPayload)]
  /\ cpc' = "join"
  /\ UNCHANGED <<config, outside, task_idx_deque, completed_tasks, failed_tasks, n_to_do,
                 started, passLeft, cur, result_q, rlock, hist>>
  /\ Unchanged_Workers /\ Unchanged_Grid

\* cleanup: "w.join()" for every worker; run_tasks returns
ParJoin ==
  /\ runner = "parallel"
  /\ cpc = "join"
  /\ \A w \in DOMAIN wpc : wpc[w] \in {"stopped", "dead"}
  /\ cpc' = "done"
  /\ UNCHANGED <<config, outside, task_idx_deque, completed_tasks, failed_tasks, n_to_do,
                 started, passLeft, cur, work_q, result_q, rlock, hist>>
  /\ Unchanged_Workers /\ Unchanged_Grid

\* ------------------------------------------------------------ GridRunner
\* the order of self._worker_qs, which terminate() and self._qcycle follow
PoolOrder == <<"fast", "slow">>

\* route(task_no): the explicit route, else the default pool with a null extra;
\* the pool name "none" stands for the ValueError of a missing default pool
route_default_only(task_no) == <<default_worker, NoExtra>>

route(task_no) ==
  IF task_no \in DOMAIN routes THEN routes[task_no] ELSE <<default_worker, NoExtra>>

\* run_tasks up to the loop
GridRunTasks ==
  /\ runner = "grid"
  /\ cpc = "run_tasks"
  /\ n_to_do' = InitialToDo(task_idx_deque)
  /\ cpc' = "fill"
  /\ UNCHANGED <<config, outside, task_idx_deque, completed_tasks, failed_tasks, started,
                 passLeft, cur, work_q, result_q, rlock, hist>>
  /\ Unchanged_Workers /\ Unchanged_Grid

\* _fill_work_qs: "for _ in range(len(self.task_idx_deque))"
GridFillBegin ==
  /\ runner = "grid"
  /\ cpc = "fill"
  /\ passLeft' = PassLength(task_idx_deque)
  /\ cpc' = "pass"
  /\ hist' = ObservePass(hist, task_idx_deque)
  /\ UNCHANGED <<config, outside, task_idx_deque, completed_tasks, failed_tasks, n_to_do,
                 started, cur, work_q, result_q, rlock>>
  /\ Unchanged_Workers /\ Unchanged_Grid

\* one iteration of the loop of _fill_work_qs, up to the put on the pool's queue
GridFillStep ==
  /\ runner = "grid"
  /\ cpc = "pass"
  /\ passLeft > 0
  /\ passLeft' = passLeft - 1
  /\ LET idx == Back(task_idx_deque)
         h == ObservePop(hist, idx) IN
     CASE Gate(idx) = "parent_failed" ->
            \E p \in predecessors(idx) \cap failed_tasks :
              LET r == parent_failed_result(idx, p) IN
              /\ task_idx_deque' = PopBack(task_idx_deque)
              /\ completed_tasks' = HandleResultCompleted(r)
              /\ failed_tasks' = HandleResultFailed(r)
              /\ hist' = ObserveResult(h, r)
              /\ n_to_do' = n_to_do - 1
              /\ UNCHANGED <<cpc, cur, work_q>>
       [] Gate(idx) = "defer" ->
            /\ task_idx_deque' = AppendLeft(PopBack(task_idx_deque), idx)
            /\ hist' = h
            /\ UNCHANGED <<completed_tasks, failed_tasks, n_to_do, cpc, cur, work_q>>
       [] Gate(idx) = "dispatch" ->
            /\ task_idx_deque' = PopBack(task_idx_deque)
            /\ cur' = idx
            /\ \/ \* cloudpickle.dumps raises: ValueError leaves run_tasks
                  /\ cpc' = "raised"
                  /\ hist' = ObserveRaised(BeforeDumps(h, idx), "serialize")
                  /\ UNCHANGED work_q
               \/ LET name == route(idx)[1]
                      extra == route(idx)[2] IN
                  IF name = "none"
                    THEN /\ cpc' = "raised"
                         /\ hist' = ObserveRaised(h, "route")
                         /\ UNCHANGED work_q
                    ELSE /\ work_q' = [work_q EXCEPT ![name] = Append(@, TaskPayload(idx, extra))]
                         /\ hist' = ObserveSent(h, idx, name, extra)
                         /\ cpc' = "put"
            /\ UNCHANGED <<completed_tasks, failed_tasks, n_to_do>>
  /\ UNCHANGED <<config, outside, started, result_q, rlock>>
  /\ Unchanged_Workers /\ Unchanged_Grid

\* "self.ctx._handle_task_started(idx)", after the put
GridStarted ==
  /\ runner = "grid"
  /\ cpc = "put"
  /\ hist' = ObserveStarted(hist, cur)
  /\ cpc' = "pass"
  /\ UNCHANGED <<config, outside, task_idx_deque, completed_tasks, failed_tasks, n_to_do,
                 started, passLeft, cur, work_q, result_q, rlock>>
  /\ Unchanged_Workers /\ Unchanged_Grid

\* the end of _fill_work_qs starts the workers once; then "if self.n_to_do <= 0: break"
GridFillEnd ==
  /\ runner = "grid"
  /\ cpc = "pass"
  /\ passLeft = 0
  /\ started' = TRUE
  /\ wpc' = IF started THEN wpc ELSE [w \in DOMAIN wpc |-> "idle"]
  /\ cpc' = IF n_to_do <= 0 THEN "cleanup" ELSE "wait"
  /\ UNCHANGED <<config, outside, task_idx_deque, completed_tasks, failed_tasks, n_to_do,
                 passLeft, cur, work_q, result_q, rlock, lock, wtask, hist>>
  /\ Unchanged_Grid

\* next(self._qcycle): the cursor moves on and is kept between calls
ResetCursor(c) == 1

NextCursor(c) == IF c = Len(PoolOrder) THEN 1 ELSE c + 1

\* the cursor a new call of _get_result starts from
StartCursor(c) == c

\* the polls of one round of _get_result: "for _ in range(len(self.workers))"
RoundLength == Cardinality(DOMAIN wpc)

\* _get_result: one "next(self._qcycle).get(False)"; a result is handled by
\* run_tasks, an empty queue is passed over
GridPoll ==
  /\ runner = "grid"
  /\ cpc = "wait"
  /\ LET p == PoolOrder[qcycle] IN
     IF result_q[p] # << >>
       THEN LET r == Head(result_q[p]) IN
            /\ result_q' = [result_q EXCEPT ![p] = Tail(@)]
            /\ qcycle' = StartCursor(NextCursor(qcycle))
            /\ polls' = 0
            /\ n_to_do' = n_to_do - 1
            /\ completed_tasks' = HandleResultCompleted(r)
            /\ failed_tasks' = HandleResultFailed(r)
            /\ hist' = [ObserveReceived(ObserveResult(hist, r)) EXCEPT
                          !.skipped = [q \in GridPools |->
                                         IF q # p /\ result_q[q] # << >> THEN @[q] + 1 ELSE 0],
                          !.polledEmpty = {}]
            /\ cpc' = IF QuitNow(r) THEN "terminate" ELSE "fill"
            /\ cur' = 1
       ELSE /\ qcycle' = NextCursor(qcycle)
            /\ polls' = polls + 1
            /\ hist' = [hist EXCEPT !.polledEmpty = @ \cup {p}]
            /\ cpc' = IF polls + 1 >= RoundLength THEN "sleep" ELSE cpc
            /\ UNCHANGED <<result_q, n_to_do, completed_tasks, failed_tasks, cur>>
  /\ UNCHANGED <<config, outside, task_idx_deque, started, passLeft, work_q, rlock>>
  /\ Unchanged_Workers

\* _get_result: "time.sleep(0.05)" after a round without a result
GridSleep ==
  /\ runner = "grid"
  /\ cpc = "sleep"
  /\ cpc' = "wait"
  /\ polls' = 0
  /\ hist' = [hist EXCEPT !.polledEmpty = {}]
  /\ UNCHANGED <<config, outside, task_idx_deque, completed_tasks, failed_tasks, n_to_do,
                 started, passLeft, cur, work_q, result_q, rlock, qcycle>>
  /\ Unchanged_Workers

\* terminate, _terminate_mpq of pool PoolOrder[cur]: "q._rlock.acquire()"
GridTermAcquire ==
  /\ runner = "grid"
  /\ cpc = "terminate"
  /\ IsProc(PoolOrder[cur])
  /\ rlock[PoolOrder[cur]] = Free
  /\ rlock' = AcquireRLock(PoolOrder[cur])
  /\ hist' = [hist EXCEPT !.drainStarted = @ \cup {PoolOrder[cur]}]
  /\ cpc' = "drain"
  /\ UNCHANGED <<config, outside, task_idx_deque, completed_tasks, failed_tasks, n_to_do,
                 started, passLeft, cur, work_q, result_q>>
  /\ Unchanged_Workers /\ Unchanged_Grid

\* _terminate_mpq: one turn of "while q._reader.poll(): recv()"
GridTermDrain ==
  /\ runner = "grid"
  /\ cpc = "drain"
  /\ work_q[PoolOrder[cur]] # << >>
  /\ work_q' = [work_q EXCEPT ![PoolOrder[cur]] = Tail(@)]
  /\ UNCHANGED <<config, outside, task_idx_deque, completed_tasks, failed_tasks, n_to_do,
                 started, cpc, passLeft, cur, result_q, rlock, hist>>
  /\ Unchanged_Workers /\ Unchanged_Grid

\* _terminate_mpq: terminate the workers of the pool's class and release; after
\* the last pool terminate() joins every worker, all of them terminated
GridTermKill ==
  /\ runner = "grid"
  /\ cpc = "drain"
  /\ work_q[PoolOrder[cur]] = << >>
  /\ wpc' = [w \in DOMAIN wpc |-> IF w[1] = PoolOrder[cur] THEN "dead" ELSE wpc[w]]
  /\ rlock' = [rlock EXCEPT ![PoolOrder[cur]] = Free]
  /\ IF cur < Len(PoolOrder)
       THEN cur' = cur + 1 /\ cpc' = "terminate"
       ELSE cur' = cur /\ cpc' = "cleanup"
  /\ UNCHANGED <<config, outside, task_idx_deque, completed_tasks, failed_tasks, n_to_do,
                 started, passLeft, work_q, result_q, lock, wtask, hist>>
  /\ Unchanged_Grid

\* cleanup: n_procs stop sentinels on every pool's queue
GridCleanup ==
  /\ runner = "grid"
  /\ cpc = "cleanup"
  /\ work_q' = [p \in DOMAIN work_q |-> work_q[p] \o Copies(Rate(p), StopPayload)]
  /\ cpc' = "join"
  /\ UNCHANGED <<config, outside, task_idx_deque, completed_tasks, failed_tasks, n_to_do,
                 started, passLeft, cur, result_q, rlock, hist>>
  /\ Unchanged_Workers /\ Unchanged_Grid

\* cleanup: "w.join()" for every worker; run_tasks returns
GridJoin ==
  /\ runner = "grid"
  /\ cpc = "join"
  /\ \A w \in DOMAIN wpc : wpc[w] \in {"stopped", "dead"}
  /\ cpc' = "done"
  /\ UNCHANGED <<config, outside, task_idx_deque, completed_tasks, failed_tasks, n_to_do,
                 started, passLeft, cur, work_q, result_q, rlock, hist>>
  /\ Unchanged_Workers /\ Unchanged_Grid

\* -------------------------------------------------------- worker_run_loop
Unchanged_Coord ==
  UNCHANGED <<config, outside, task_idx_deque, completed_tasks, failed_tasks, n_to_do,
              started, cpc, passLeft, cur, qcycle, polls>>

\* what a worker does with the item work_q.get() returned: the sentinel stops
\* it, a payload is deserialized
WorkerTake(w, item) ==
  IF item.stop
    THEN /\ wpc' = [wpc EXCEPT ![w] = "stopped"]
         /\ UNCHANGED <<result_q, wtask, hist>>
    ELSE \/ \* pickle.loads raises
            /\ result_q' = [result_q EXCEPT ![w[1]] = Append(@, exception_result(None))]
            /\ hist' = [hist EXCEPT !.undeserialized = @ \cup {item.task},
                                    !.obtained[w[1]] = @ + 1]
            /\ wpc' = [wpc EXCEPT ![w] = "idle"]
            /\ UNCHANGED wtask
         \/ /\ wtask' = [wtask EXCEPT ![w] = item.task]
            /\ wpc' = [wpc EXCEPT ![w] = "report"]
            /\ hist' = [hist EXCEPT !.obtained[w[1]] = @ + 1]
            /\ UNCHANGED result_q

\* work_q.get() takes the queue's read lock; it returns an item at once when
\* there is one, and otherwise waits for one with the lock held
WorkerGet(w) ==
  /\ wpc[w] = "idle"
  /\ IsProc(w[1])
  /\ rlock[w[1]] = Free
  /\ IF work_q[w[1]] # << >>
       THEN /\ work_q' = [work_q EXCEPT ![w[1]] = Tail(@)]
            /\ WorkerTake(w, Head(work_q[w[1]]))
            /\ UNCHANGED rlock
       ELSE /\ rlock' = [rlock EXCEPT ![w[1]] = w]
            /\ wpc' = [wpc EXCEPT ![w] = "recv"]
            /\ UNCHANGED <<work_q, result_q, wtask, hist>>
  /\ UNCHANGED lock
  /\ Unchanged_Coord

\* the waiting work_q.get() receives an item and releases the read lock
WorkerRecv(w) ==
  /\ wpc[w] = "recv"
  /\ work_q[w[1]] # << >>
  /\ work_q' = [work_q EXCEPT ![w[1]] = Tail(@)]
  /\ rlock' = [rlock EXCEPT ![w[1]] = Free]
  /\ WorkerTake(w, Head(work_q[w[1]]))
  /\ UNCHANGED lock
  /\ Unchanged_Coord

\* "if lock is not None: lock.acquire()": the lock of the worker's pool
ReporterLockIgnored(w) == TRUE

ReporterLockFree(w) == lock[w[1]] = Free

\* "lock.acquire(); reporter.task_running(task.task_no)"
WorkerReportRunning(w) ==
  /\ wpc[w] = "report"
  /\ ReporterLockFree(w)
  /\ lock' = [lock EXCEPT ![w[1]] = w]
  /\ hist' = ObserveReport(hist, w, wtask[w], "task_running")
  /\ wpc' = [wpc EXCEPT ![w] = "command"]
  /\ UNCHANGED <<work_q, result_q, rlock, wtask>>
  /\ Unchanged_Coord

\* "reporter.task_command(task.task_no); lock.release()"
WorkerReportCommand(w) ==
  /\ wpc[w] = "command"
  /\ lock' = [lock EXCEPT ![w[1]] = Free]
  /\ hist' = ObserveReport(hist, w, wtask[w], "task_command")
  /\ wpc' = [wpc EXCEPT ![w] = "run"]
  /\ UNCHANGED <<work_q, result_q, rlock, wtask>>
  /\ Unchanged_Coord

\* result_q.put_nowait(result)
put_twice(q, result) == q \o <<result, result>>

put_nowait(q, result) == Append(q, result)

\* "result = run_task(task, extra); result_q.put_nowait(result)"
WorkerRun(w) ==
  /\ wpc[w] = "run"
  /\ \E r \in RunResults(wtask[w]) :
       result_q' = [result_q EXCEPT ![w[1]] = put_nowait(@, r)]
  /\ hist' = ObserveRan(hist, wtask[w])
  /\ wpc' = [wpc EXCEPT ![w] = "idle"]
  /\ wtask' = [wtask EXCEPT ![w] = None]
  /\ UNCHANGED <<work_q, rlock, lock>>
  /\ Unchanged_Coord

Worker ==
  \E w \in DOMAIN wpc :
    \/ WorkerGet(w)
    \/ WorkerRecv(w)
    \/ WorkerReportRunning(w)
    \/ WorkerReportCommand(w)
    \/ WorkerRun(w)

Next ==
  \/ SerialStep
  \/ SerialReturn
  \/ ParRunTasks
  \/ ParFillBegin
  \/ ParFillStep
  \/ ParFillEnd
  \/ ParGetResult
  \/ ParTermAcquire
  \/ ParTermDrain
  \/ ParTermKill
  \/ ParCleanup
  \/ ParJoin
  \/ GridRunTasks
  \/ GridFillBegin
  \/ GridFillStep
  \/ GridStarted
  \/ GridFillEnd
  \/ GridPoll
  \/ GridSleep
  \/ GridTermAcquire
  \/ GridTermDrain
  \/ GridTermKill
  \/ GridCleanup
  \/ GridJoin
  \/ Worker

Spec == Init /\ [][Next]_vars

\* ------------------------------------------------------ the action executor
\* _run_task_locally and _get_task_result, applied to one task at a time
MaxActions == 3
MaxTargets == 2

\* a null field of a TaskResult, and a list in such a field
Null == [null |-> TRUE, value |-> << >>]
Some(v) == [null |-> FALSE, value |-> v]

\* the error None of a successful result
NoError == [kind |-> "none", at |-> None]

\* sequences over S of length at most n
RECURSIVE SeqUpTo(_, _)
SeqUpTo(S, n) ==
  IF n = 0 THEN {<< >>}
  ELSE SeqUpTo(S, n - 1) \cup {Append(q, x) : q \in {r \in SeqUpTo(S, n - 1) : Len(r) = n - 1}, x \in S}

\* a tracked target: its name, and whether compare() raises
Targets == [name : {"a", "b"}, raises : BOOLEAN]

\* the tasks the executor is applied to; an action is TRUE when it raises
ExecTasks == [task_no : Tasks, actions : SeqUpTo(BOOLEAN, MaxActions), targets : SeqUpTo(Targets, MaxTargets)]

\* list(target.compare()): the materialized fingerprint of a target
compare(target) == <<target.name, "fingerprint">>

\* TaskFailed(msg, task_no); the message names the action index or the target
TaskFailed(kind, at, task_no) == [kind |-> kind, at |-> at, task_no |-> task_no]

\* TaskResult(task_no, error, dep_keys, dep_compares) with all of its fields
ExecResult(task_no, error, dep_keys, dep_compares) ==
  [task_no |-> task_no, error |-> error, dep_keys |-> dep_keys, dep_compares |-> dep_compares]

\* exception_result(exc) for an exception that has a task_no
exception_result_anonymous(exc) ==
  ExecResult(None, [kind |-> exc.kind, at |-> exc.at], Null, Null)

exception_result_of(exc) ==
  ExecResult(exc.task_no, [kind |-> exc.kind, at |-> exc.at], Null, Null)

\* list.append
ListPrepend(l, x) == <<x>> \o l

ListAppend(l, x) == Append(l, x)

\* the variables of a run, which the executor and add_worker leave alone
running == <<task_idx_deque, completed_tasks, failed_tasks, n_to_do, started, cpc,
             passLeft, cur, work_q, result_q, rlock, lock, wpc, wtask, qcycle,
             polls, hist>>

\* a runner that is not running: no task, no worker
NotRunning ==
  /\ quit_early = FALSE
  /\ dag = {}
  /\ routes = << >>
  /\ task_idx_deque = << >>
  /\ completed_tasks = {}
  /\ failed_tasks = {}
  /\ n_to_do = 0
  /\ started = FALSE
  /\ cpc = "done"
  /\ passLeft = 0
  /\ cur = None
  /\ work_q = << >>
  /\ result_q = << >>
  /\ rlock = << >>
  /\ lock = << >>
  /\ wpc = << >>
  /\ wtask = << >>
  /\ qcycle = 1
  /\ polls = 0
  /\ hist = NoHist

ExecInit ==
  /\ NotRunning
  /\ runner = "serial"
  /\ default_worker = "none"
  /\ worker_config = << >>
  /\ calls = << >>
  /\ exec = NoCall
  /\ cmd = NoCommand

\* _run_task_locally(task) is called: "for i, action_func in enumerate(...)"
ExecCall ==
  /\ exec.pc = "none"
  /\ \E task \in ExecTasks :
       exec' = [pc |-> "actions", task |-> task, i |-> 0, ranActions |-> << >>,
                compared |-> << >>, targ_keys |-> << >>, targ_compares |-> << >>,
                result |-> ExecResult(None, NoError, Null, Null)]
  /\ UNCHANGED <<config, calls, cmd, running>>

\* one iteration of the loop over the actions: action i runs; if it raises,
\* exception_result(TaskFailed("Error executing action i ...", task_no)) is returned
ExecAction ==
  /\ exec.pc = "actions"
  /\ exec.i < Len(exec.task.actions)
  /\ exec' = IF exec.task.actions[exec.i + 1]
               THEN [exec EXCEPT !.ranActions = Append(@, exec.i),
                                 !.pc = "returned",
                                 !.result = exception_result_of(
                                              TaskFailed("action", exec.i, exec.task.task_no))]
               ELSE [exec EXCEPT !.ranActions = Append(@, exec.i), !.i = @ + 1]
  /\ UNCHANGED <<config, calls, cmd, running>>

\* the loop over the actions ends: "return _get_task_result(task)"
ExecGetTaskResult ==
  /\ exec.pc = "actions"
  /\ exec.i = Len(exec.task.actions)
  /\ exec' = [exec EXCEPT !.pc = "targets", !.i = 0]
  /\ UNCHANGED <<config, calls, cmd, running>>

\* one iteration of "for target in task.targets": the name is appended, then
\* compare() is called; if it raises, exception_result(TaskFailed(...)) is returned
ExecTarget ==
  /\ exec.pc = "targets"
  /\ exec.i < Len(exec.task.targets)
  /\ LET target == exec.task.targets[exec.i + 1] IN
     exec' = IF target.raises
               THEN [exec EXCEPT !.targ_keys = ListAppend(@, target.name),
                                 !.compared = Append(@, exec.i),
                                 !.pc = "returned",
                                 !.result = exception_result_of(
                                              TaskFailed("target", exec.i, exec.task.task_no))]
               ELSE [exec EXCEPT !.targ_keys = ListAppend(@, target.name),
                                 !.targ_compares = ListAppend(@, compare(target)),
                                 !.compared = Append(@, exec.i),
                                 !.i = @ + 1]
  /\ UNCHANGED <<config, calls, cmd, running>>

\* "return TaskResult(task.task_no, None, targ_keys, targ_compares)"
ExecReturn ==
  /\ exec.pc = "targets"
  /\ exec.i = Len(exec.task.targets)
  /\ exec' = [exec EXCEPT !.pc = "returned",
                          !.result = ExecResult(exec.task.task_no, NoError,
                                                Some(exec.targ_keys), Some(exec.targ_compares))]
  /\ UNCHANGED <<config, calls, cmd, running>>

ExecNext ==
  \/ ExecCall
  \/ ExecAction
  \/ ExecGetTaskResult
  \/ ExecTarget
  \/ ExecReturn

ExecSpec == ExecInit /\ [][ExecNext]_vars

\* -------------------------------------------------- GridRunner.add_worker
\* the number of add_worker calls followed
MaxCalls == 3

\* the arguments the calls are taken over
WorkerClasses == {"FastWorker", "ThreadWorker"}
Rates == {DefaultRate, DefaultRate + 1}

\* GridRunner.__init__: no pool, no default
AddInit ==
  /\ NotRunning
  /\ runner = "grid"
  /\ default_worker = "none"
  /\ worker_config = << >>
  /\ calls = << >>
  /\ exec = NoCall
  /\ cmd = NoCommand

\* "if default: self.default_worker = name"
NewDefaultOrNone(name, default) == IF default THEN name ELSE "none"

NewDefault(name, default) == IF default THEN name ELSE default_worker

\* "self._worker_config[name] = (worker_class, rate)"
Registered(worker_class, name, rate) ==
  [n \in DOMAIN worker_config \cup {name} |->
     IF n = name THEN <<worker_class, rate>> ELSE worker_config[n]]

add_worker(worker_class, name, rate, default) ==
  /\ worker_config' = Registered(worker_class, name, rate)
  /\ default_worker' = NewDefault(name, default)
  /\ calls' = Append(calls, [worker_class |-> worker_class, name |-> name,
                             rate |-> rate, default |-> default])
  /\ UNCHANGED <<runner, quit_early, dag, routes, exec, cmd, running>>

AddWorker ==
  /\ Len(calls) < MaxCalls
  /\ \E worker_class \in WorkerClasses, name \in GridPools, rate \in Rates, default \in BOOLEAN :
       add_worker(worker_class, name, rate, default)

AddNext == AddWorker

AddSpec == AddInit /\ [][AddNext]_vars

\* ------------------------------- ParallelLocalRunner on independent tasks
\* as many mutually independent tasks as there are workers, or all tasks
NIndependent == IF NTasks < Jobs THEN NTasks ELSE Jobs

IndepInit ==
  /\ runner = "parallel"
  /\ quit_early \in BOOLEAN
  /\ dag = {}
  /\ routes = << >>
  /\ default_worker = "none"
  /\ worker_config = << >>
  /\ calls = << >>
  /\ exec = NoCall
  /\ cmd = NoCommand
  /\ task_idx_deque = [i \in 1 .. NIndependent |-> NIndependent - i]
  /\ completed_tasks = {}
  /\ failed_tasks = {}
  /\ n_to_do = 0
  /\ started = FALSE
  /\ cpc = "run_tasks"
  /\ passLeft = 0
  /\ cur = None
  /\ work_q = [p \in PoolsOf(runner) |-> << >>]
  /\ result_q = [p \in PoolsOf(runner) |-> << >>]
  /\ rlock = [p \in PoolsOf(runner) |-> Free]
  /\ lock = [p \in PoolsOf(runner) |-> Free]
  /\ wpc = [w \in WorkersOf(runner) |-> "new"]
  /\ wtask = [w \in WorkersOf(runner) |-> None]
  /\ qcycle = 1
  /\ polls = 0
  /\ hist = NoHist

ParNext ==
  \/ ParRunTasks
  \/ ParFillBegin
  \/ ParFillStep
  \/ ParFillEnd
  \/ ParGetResult
  \/ ParTermAcquire
  \/ ParTermDrain
  \/ ParTermKill
  \/ ParCleanup
  \/ ParJoin
  \/ Worker

IndepSpec == IndepInit /\ [][ParNext]_vars

\* ------------------------------ SerialLocalRunner on a deque in any order
\* every order of the tasks in the deque
DequeOrders == {q \in [1 .. NTasks -> Tasks] : \A t \in Tasks : \E i \in 1 .. NTasks : q[i] = t}

SerialInit ==
  /\ runner = "serial"
  /\ quit_early \in BOOLEAN
  /\ dag \in Dags
  /\ routes = << >>
  /\ default_worker = "none"
  /\ worker_config = << >>
  /\ calls = << >>
  /\ exec = NoCall
  /\ cmd = NoCommand
  /\ task_idx_deque \in DequeOrders
  /\ completed_tasks = {}
  /\ failed_tasks = {}
  /\ n_to_do = 0
  /\ started = FALSE
  /\ cpc = "run_tasks"
  /\ passLeft = 0
  /\ cur = None
  /\ work_q = << >>
  /\ result_q = << >>
  /\ rlock = << >>
  /\ lock = << >>
  /\ wpc = << >>
  /\ wtask = << >>
  /\ qcycle = 1
  /\ polls = 0
  /\ hist = NoHist

SerialNext ==
  \/ SerialStep
  \/ SerialReturn

SerialSpec == SerialInit /\ [][SerialNext]_vars


\* ------------------------------------------ a second call of run_tasks
\* runs of a ParallelLocalRunner or of the shared GridRunner that
\* current_grid_runner returns again, without quit_early, on which run_tasks
\* is called once more after it has returned
AgainDags == { {}, {<<0, 1>>} }

AgainInit ==
  /\ runner \in {"parallel", "grid"}
  /\ quit_early = FALSE
  /\ dag \in AgainDags
  /\ routes = << >>
  /\ default_worker = (IF runner = "grid" THEN "fast" ELSE "none")
  /\ worker_config = (IF runner = "grid" THEN ProcessPools ELSE << >>)
  /\ calls = << >>
  /\ exec = NoCall
  /\ cmd = NoCommand
  /\ task_idx_deque = SeededDeque
  /\ completed_tasks = {}
  /\ failed_tasks = {}
  /\ n_to_do = 0
  /\ started = FALSE
  /\ cpc = "run_tasks"
  /\ passLeft = 0
  /\ cur = None
  /\ work_q = [p \in PoolsOf(runner) |-> << >>]
  /\ result_q = [p \in PoolsOf(runner) |-> << >>]
  /\ rlock = [p \in PoolsOf(runner) |-> Free]
  /\ lock = [p \in PoolsOf(runner) |-> Free]
  /\ wpc = [w \in WorkersOf(runner) |-> "new"]
  /\ wtask = [w \in WorkersOf(runner) |-> None]
  /\ qcycle = 1
  /\ polls = 0
  /\ hist = NoHist

\* run_tasks(task_idx_deque) is called again on the runner that has returned:
\* the call sets the deque and nothing else; self.started, self.workers, the
\* queues and the cursor are what the first call left
RunTasksAgain ==
  /\ cpc = "done"
  /\ ~hist.again
  /\ task_idx_deque' = SeededDeque
  /\ cpc' = "run_tasks"
  /\ hist' = [NoHist EXCEPT !.again = TRUE]
  /\ UNCHANGED <<config, outside, completed_tasks, failed_tasks, n_to_do, started,
                 passLeft, cur, work_q, result_q, rlock>>
  /\ Unchanged_Workers /\ Unchanged_Grid

AgainNext ==
  \/ ParRunTasks
  \/ ParFillBegin
  \/ ParFillStep
  \/ ParFillEnd
  \/ ParGetResult
  \/ ParCleanup
  \/ ParJoin
  \/ GridRunTasks
  \/ GridFillBegin
  \/ GridFillStep
  \/ GridStarted
  \/ GridFillEnd
  \/ GridPoll
  \/ GridSleep
  \/ GridCleanup
  \/ GridJoin
  \/ Worker
  \/ RunTasksAgain

AgainSpec == AgainInit /\ [][AgainNext]_vars


\* ------------------------------------------- Run._execute (commands.py)
MaxProcesses == 2

\* the values of the keyword arguments of _execute
Verbosities == {None, 0, 1, 2}
ParTypes == {"process", "thread", "other"}

\* an element of the argument list: the name of what it refers to and its
\* value; objects have the value 0, flags 0 or 1, a null verbosity None
Arg(name, value) == <<name, value>>
Flag(b) == IF b THEN 1 ELSE 0

\* "run_args = [self.dep_class, self.dep_file, reporter_obj, continue_,
\* always, verbosity]"
NormalArgs(c) ==
  << Arg("dep_class", 0), Arg("dep_file", 0), Arg("reporter_obj", 0),
     Arg("continue_", Flag(c.continue_)), Arg("always", Flag(c.always)),
     Arg("verbosity", c.verbosity) >>

\* "if num_process > 0: run_args.append(run_args)": the element appended is
\* the list object itself
AppendArgs(c) ==
  IF c.num_process > 0 THEN Append(c.run_args, Arg("run_args", 0)) ELSE c.run_args

\* _discover_runner_class(num_process, par_type)
discover_runner_class(c) ==
  IF c.num_process = 0 THEN "Runner"
  ELSE IF c.par_type = "process"
         THEN (IF c.available THEN "MRunner" ELSE "MThreadRunner")
  ELSE IF c.par_type = "thread" THEN "MThreadRunner"
  ELSE "InvalidCommand"

\* "RunnerClass = RUNNER_MAP.get(self.opt_values["runner"])", and the
\* discovered class when the option names no runner of the map
RunnerClassOf(c) == IF c.mapped THEN "mapped" ELSE discover_runner_class(c)

CmdInit ==
  /\ NotRunning
  /\ runner = "serial"
  /\ default_worker = "none"
  /\ worker_config = << >>
  /\ calls = << >>
  /\ exec = NoCall
  /\ \E num_process \in 0 .. MaxProcesses, continue_ \in BOOLEAN, always \in BOOLEAN,
        verbosity \in Verbosities, par_type \in ParTypes, mapped \in BOOLEAN,
        available \in BOOLEAN :
       cmd = [pc |-> "execute", num_process |-> num_process, continue_ |-> continue_,
              always |-> always, verbosity |-> verbosity, par_type |-> par_type,
              mapped |-> mapped, available |-> available,
              run_args |-> << >>, RunnerClass |-> "none", passed |-> << >>]

\* "run_args = [...]"
ExecuteArgs ==
  /\ cmd.pc = "execute"
  /\ cmd' = [cmd EXCEPT !.pc = "append", !.run_args = NormalArgs(cmd)]
  /\ UNCHANGED <<config, calls, exec, running>>

\* "if num_process > 0: run_args.append(run_args)"
ExecuteAppend ==
  /\ cmd.pc = "append"
  /\ cmd' = [cmd EXCEPT !.pc = "class", !.run_args = AppendArgs(cmd)]
  /\ UNCHANGED <<config, calls, exec, running>>

\* the runner class; an invalid par_type raises InvalidCommand
ExecuteClass ==
  /\ cmd.pc = "class"
  /\ cmd' = [cmd EXCEPT !.pc = IF RunnerClassOf(cmd) = "InvalidCommand"
                                 THEN "raised" ELSE "construct",
                        !.RunnerClass = RunnerClassOf(cmd)]
  /\ UNCHANGED <<config, calls, exec, running>>

\* "runner = RunnerClass(*run_args)"
ExecuteConstruct ==
  /\ cmd.pc = "construct"
  /\ cmd' = [cmd EXCEPT !.pc = "run_all", !.passed = cmd.run_args]
  /\ UNCHANGED <<config, calls, exec, running>>

CmdNext ==
  \/ ExecuteArgs
  \/ ExecuteAppend
  \/ ExecuteClass
  \/ ExecuteConstruct

CmdSpec == CmdInit /\ [][CmdNext]_vars

\* ------------------------------------------- GridRunner with a thread pool
\* the registrations with one thread-backed pool
ThreadedPools ==
  { [p \in GridPools |-> IF p = t THEN <<"ThreadWorker", DefaultRate>> ELSE ProcessPools[p]] :
      t \in GridPools }

ThreadInit ==
  /\ runner = "grid"
  /\ quit_early \in BOOLEAN
  /\ dag \in Dags
  /\ routes \in Routes
  /\ default_worker = "fast"
  /\ worker_config \in ThreadedPools
  /\ calls = << >>
  /\ exec = NoCall
  /\ cmd = NoCommand
  /\ task_idx_deque = SeededDeque
  /\ completed_tasks = {}
  /\ failed_tasks = {}
  /\ n_to_do = 0
  /\ started = FALSE
  /\ cpc = "run_tasks"
  /\ passLeft = 0
  /\ cur = None
  /\ work_q = [p \in PoolsOf(runner) |-> << >>]
  /\ result_q = [p \in PoolsOf(runner) |-> << >>]
  /\ rlock = [p \in PoolsOf(runner) |-> Free]
  /\ lock = [p \in PoolsOf(runner) |-> Free]
  /\ wpc = [w \in WorkersOf(runner) |-> "new"]
  /\ wtask = [w \in WorkersOf(runner) |-> None]
  /\ qcycle = 1
  /\ polls = 0
  /\ hist = NoHist

\* queue.Queue.get() of a worker thread: it takes the mutex, waits on
\* not_empty (which gives the mutex up) while the buffer is empty, and takes
\* an item with the mutex held
ThreadGet(w) ==
  /\ wpc[w] = "idle"
  /\ ~IsProc(w[1])
  /\ rlock[w[1]] = Free
  /\ work_q[w[1]] # << >>
  /\ work_q' = [work_q EXCEPT ![w[1]] = Tail(@)]
  /\ WorkerTake(w, Head(work_q[w[1]]))
  /\ UNCHANGED <<rlock, lock>>
  /\ Unchanged_Coord

ThreadWorker == \E w \in DOMAIN wpc : ThreadGet(w)

\* the worker threads of the class of pool p have left worker_run_loop
Exited(p) ==
  \A w \in DOMAIN wpc :
    worker_config[w[1]][1] = worker_config[p][1] => wpc[w] = "stopped"

\* _terminate_qq of pool PoolOrder[cur]: "q.mutex.acquire()" and the buffer is
\* cleared; then "worker.join()" for the threads of the pool's class, which
\* returns when they have left their loop, and "q.mutex.release()"
GridTerminateQQ ==
  /\ runner = "grid"
  /\ cpc \in {"terminate", "join_threads"}
  /\ ~IsProc(PoolOrder[cur])
  /\ IF cpc = "terminate"
       THEN /\ rlock[PoolOrder[cur]] = Free
            /\ rlock' = AcquireRLock(PoolOrder[cur])
            /\ work_q' = [work_q EXCEPT ![PoolOrder[cur]] = << >>]
            /\ hist' = [hist EXCEPT !.drainStarted = @ \cup {PoolOrder[cur]}]
            /\ cpc' = "join_threads"
            /\ cur' = cur
       ELSE /\ cpc = "join_threads"
            /\ Exited(PoolOrder[cur])
            /\ rlock' = [rlock EXCEPT ![PoolOrder[cur]] = Free]
            /\ IF cur < Len(PoolOrder)
                 THEN cur' = cur + 1 /\ cpc' = "terminate"
                 ELSE cur' = cur /\ cpc' = "cleanup"
            /\ UNCHANGED <<work_q, hist>>
  /\ UNCHANGED <<config, outside, task_idx_deque, completed_tasks, failed_tasks, n_to_do,
                 started, passLeft, result_q>>
  /\ Unchanged_Workers /\ Unchanged_Grid

ThreadNext ==
  \/ GridRunTasks
  \/ GridFillBegin
  \/ GridFillStep
  \/ GridStarted
  \/ GridFillEnd
  \/ GridPoll
  \/ GridSleep
  \/ GridTermAcquire
  \/ GridTermDrain
  \/ GridTermKill
  \/ GridTerminateQQ
  \/ GridCleanup
  \/ GridJoin
  \/ Worker
  \/ ThreadWorker

ThreadSpec == ThreadInit /\ [][ThreadNext]_vars

\* ================================================================ claims
Edges == dag

Handled(t) == hist.nresult[t] > 0
Dispatched(t) == hist.sent[t] > 0 \/ hist.ran[t] > 0
Executed(t) == Handled(t) /\ hist.result[t].parent = None
ParentFailed(t) == Handled(t) /\ hist.result[t].parent # None

\* tasks are dispatched only when every predecessor is completed
DispatchAfterParents ==
  \A e \in Edges : Dispatched(e[2]) => e[1] \in completed_tasks

\* C1 as stated: for every edge u -> v the result of v is handled strictly after
\* the result of u, and v is dispatched only when every predecessor of v is in
\* completed_tasks.
C1_Original ==
  /\ \A e \in Edges : Handled(e[2]) => Handled(e[1])
  /\ DispatchAfterParents

\* C1, amended: v is dispatched only when every predecessor of v is completed;
\* the result of executing v is handled after the results of all predecessors
\* of v, and a synthesized parent-failed result of v is handled after the
\* result of the failed predecessor it names (the results of the other
\* predecessors of v may still be outstanding).
C1_Precedence ==
  /\ DispatchAfterParents
  /\ \A e \in Edges :
       /\ Executed(e[2]) => Handled(e[1])
       /\ ParentFailed(e[2]) =>
            /\ hist.result[e[2]].parent \in predecessors(e[2])
            /\ Handled(hist.result[e[2]].parent)

C1_Witness ==
  /\ runner # "serial"
  /\ \E e \in Edges : Executed(e[2]) /\ Handled(e[1])
  /\ \E e \in Edges : ParentFailed(e[2])

\* the coordinator is between fill passes or has returned
AtRest == cpc \in {"wait", "sleep", "cleanup", "join", "done"}

\* C2: with quit_early = false a task with a failed ancestor is never started,
\* sent or run; its result, once handled, is a parent-failed result that names
\* a failed direct predecessor and puts it in failed_tasks; and it is in
\* failed_tasks whenever the coordinator waits for results or has returned.
C2_FailurePropagates ==
  ~quit_early =>
    \A v \in Tasks :
      ancestors(v) \cap failed_tasks # {} =>
        /\ hist.nstarted[v] = 0 /\ hist.sent[v] = 0 /\ hist.ran[v] = 0
        /\ Handled(v) =>
             /\ v \in failed_tasks
             /\ hist.result[v].parent \in predecessors(v) \cap failed_tasks
        /\ AtRest => v \in failed_tasks

C2_Witness ==
  /\ ~quit_early
  /\ runner = "grid"
  /\ \E v \in Tasks :
       /\ ParentFailed(v)
       /\ ParentFailed(hist.result[v].parent)

\* C3 as stated: whenever run_tasks has returned, every task of the deque is in
\* completed_tasks or failed_tasks.
C3_Original ==
  cpc = "done" => Tasks \subseteq completed_tasks \cup failed_tasks

\* the coordinator has handled a failing result under quit_early
QuitSeen == quit_early /\ (failed_tasks # {} \/ hist.nullResults > 0)

\* C3, amended: whenever run_tasks has returned without quitting early, every
\* task of the deque is in completed_tasks or failed_tasks, except the tasks
\* whose payload a worker could not deserialize.
C3_AllTerminal ==
  (cpc = "done" /\ ~QuitSeen) =>
    Tasks \subseteq completed_tasks \cup failed_tasks \cup hist.undeserialized

C3_Witness ==
  /\ cpc = "done"
  /\ ~QuitSeen
  /\ runner = "parallel"
  /\ failed_tasks # {}
  /\ completed_tasks # {}
  /\ completed_tasks \cup failed_tasks = Tasks

\* C4: with quit_early = false the coordinator does not wait for a result that
\* can never come: while it waits, a result is on a result queue or a worker
\* can still take a step.
C4_NeverWaitsForever ==
  (~quit_early /\ cpc \in {"wait", "sleep"}) =>
    \/ \E p \in DOMAIN result_q : result_q[p] # << >>
    \/ ENABLED Worker

\* C5: with quit_early = true, once the coordinator has handled a failing
\* result it makes no further call of _handle_task_started or
\* _handle_task_result and puts no further payload, the serial runner runs no
\* further action, and no task with a failed predecessor has run.
C5_QuitEarlyStops ==
  [][ QuitSeen =>
        /\ hist'.nstarted = hist.nstarted
        /\ hist'.sent = hist.sent
        /\ hist'.nresult = hist.nresult
        /\ hist'.nullResults = hist.nullResults
        /\ runner = "serial" => hist'.ran = hist.ran
        /\ \A v \in Tasks : predecessors(v) \cap failed_tasks' # {} => hist'.ran[v] = 0
    ]_vars

C5_Witness ==
  /\ QuitSeen
  /\ cpc = "done"
  /\ runner = "parallel"
  /\ \E v \in Tasks : predecessors(v) \cap failed_tasks # {} /\ hist.nstarted[v] = 0

\* C6: hard termination completes: while terminate() is under way some step
\* of the coordinator or of a worker is possible (stated for the runs in which
\* every payload was deserialized).
C6_TerminationCompletes ==
  (hist.nullResults = 0 /\ cpc \in {"terminate", "drain"}) => ENABLED Next

\* C7: once terminate() holds the read lock of a work queue no worker gets a
\* task payload from that queue, and when terminate() has returned no work
\* queue holds a task payload.
C7_DrainIsExclusive ==
  [][ /\ \A p \in hist.drainStarted : hist'.obtained[p] = hist.obtained[p]
      /\ (hist'.drainStarted # {} /\ cpc' \in {"cleanup", "join", "done"}) =>
           \A p \in DOMAIN work_q : \A i \in 1 .. Len(work_q'[p]) : work_q'[p][i].stop
    ]_vars

C7_Witness ==
  /\ cpc = "drain"
  /\ \E w \in DOMAIN wpc : wpc[w] = "idle" /\ rlock[w[1]] = Coord /\ work_q[w[1]] # << >>

\* C8: _handle_task_started(idx) is called at most once and never after the
\* result of idx was handled; the result of an executed task is handled after
\* exactly one call, a parent-failed result after none.
C8_StartedOnce ==
  \A idx \in Tasks :
    /\ hist.nstarted[idx] <= 1
    /\ Handled(idx) => hist.startedAtResult[idx] = hist.nstarted[idx]
    /\ Executed(idx) => hist.startedAtResult[idx] = 1 /\ hist.nresult[idx] = 1
    /\ ParentFailed(idx) => hist.startedAtResult[idx] = 0

C8_Witness ==
  /\ runner = "grid"
  /\ \E idx \in Tasks : Executed(idx)
  /\ \E idx \in Tasks : ParentFailed(idx)

\* in a log of reporter events a task_running is followed at once by the
\* task_command of the same worker and task
Contiguous(log) ==
  (Len(log) = 2 /\ log[1].kind = "task_running") =>
     log[2] = [log[1] EXCEPT !.kind = "task_command"]

\* C9 as stated: the task_running / task_command pair of a worker is contiguous
\* among the reporter events of all workers of the runner.
C9_Original == Contiguous(hist.reports)

\* C9, amended: the task_running / task_command pair of a worker is contiguous
\* among the reporter events of the workers of its own pool.
C9_ContiguousInPool == \A p \in AllPools : Contiguous(hist.poolReports[p])

C9_Witness ==
  /\ runner = "parallel"
  /\ Len(hist.reports) = 2
  /\ hist.reports[1].worker # hist.reports[2].worker
  /\ \E w \in DOMAIN wpc : wpc[w] = "report" /\ lock[w[1]] # Free

\* C10: a result waiting on a pool's result queue is returned after at most
\* (number of pools - 1) results of other pools, and the coordinator sleeps
\* only after a round that polled every pool's queue and found it empty.
C10_FairCollection ==
  runner = "grid" =>
    /\ \A p \in GridPools : hist.skipped[p] <= Cardinality(GridPools) - 1
    /\ cpc = "sleep" => hist.polledEmpty = GridPools

C10_Witness ==
  /\ runner = "grid"
  /\ hist.skipped["slow"] = 1
  /\ hist.skipped["fast"] = 0
  /\ Len(result_q["slow"]) > 0

\* the task payloads waiting on the work queue of pool p, as <<task, extra>>
Waiting(p) == {<<work_q[p][i].task, work_q[p][i].extra>> : i \in {j \in 1 .. Len(work_q[p]) : ~work_q[p][j].stop}}

\* C11: in the grid runner a task with an entry in routes is put only on the
\* pool of that entry and with its extra; a task without one is put only on
\* the default pool with a null extra; without a default pool it is never put
\* or started and run_tasks raises; a payload is put on one pool only, and a
\* payload waiting on a pool's queue is there with the pool and extra of its route.
C11_RoutedPut ==
  runner = "grid" =>
    /\ \A t \in Tasks :
         /\ t \in DOMAIN routes => hist.putOn[t] \subseteq {routes[t]}
         /\ (t \notin DOMAIN routes /\ default_worker # "none") =>
              hist.putOn[t] \subseteq {<<default_worker, NoExtra>>}
         /\ (t \notin DOMAIN routes /\ default_worker = "none") =>
              hist.putOn[t] = {} /\ hist.nstarted[t] = 0
         /\ hist.sent[t] > 0 => Cardinality(hist.putOn[t]) = 1
    /\ hist.raisedBy = "route" =>
         cpc = "raised" /\ cur \notin DOMAIN routes /\ default_worker = "none"
    /\ \A p \in DOMAIN work_q : \A x \in Waiting(p) : <<p, x[2]>> \in hist.putOn[x[1]]

C11_Witness ==
  /\ runner = "grid"
  /\ \E t \in Tasks : hist.putOn[t] = {<<"slow", ExtraArgs>>} /\ Waiting("slow") = {<<t, ExtraArgs>>}
  /\ \E t \in Tasks : hist.putOn[t] = {<<"fast", NoExtra>>}

\* C12: when serializing a task fails in a fill pass of the parallel or the
\* grid runner, run_tasks raises; the task has not been put on a work queue
\* or reported as started, no payload of it is on a queue, and no result of
\* it has been handled, then or later.
C12_UnserializableLeavesNoTrace ==
  hist.raisedBy = "serialize" =>
    /\ cpc = "raised"
    /\ hist.sent[cur] = 0 /\ hist.putOn[cur] = {}
    /\ hist.nstarted[cur] = 0
    /\ hist.nresult[cur] = 0 /\ hist.ran[cur] = 0
    /\ \A p \in DOMAIN work_q : \A x \in Waiting(p) : x[1] # cur

C12_Witness ==
  /\ hist.raisedBy = "serialize"
  /\ runner = "grid"
  /\ \E t \in Tasks : t \in completed_tasks /\ <<t, cur>> \in dag
  /\ \E t \in Tasks : hist.sent[t] = 1 /\ hist.ran[t] = 1 /\ hist.nresult[t] = 0

\* C13: when run_tasks of the parallel or the grid runner raises because a
\* task cannot be serialized or routed, every worker that was started has been
\* terminated or has stopped, and no task payload is left on a work queue.
C13_RaisedAfterTermination ==
  cpc = "raised" =>
    /\ \A w \in DOMAIN wpc : wpc[w] \in {"new", "stopped", "dead"}
    /\ \A p \in DOMAIN work_q : Waiting(p) = {}

\* C14: a worker that cannot deserialize a payload puts exactly one result, with
\* task_no null and an error, on its pool's result queue, runs no action, emits
\* no reporter event and goes back to getting work; and when the coordinator
\* handles a result with task_no null, completed_tasks and failed_tasks stay
\* as they are.
C14_UndeserializableResult ==
  [][ /\ hist'.undeserialized # hist.undeserialized =>
           \E w \in DOMAIN wpc :
             /\ result_q' = [result_q EXCEPT ![w[1]] = Append(@, TaskResult(None, TRUE, None))]
             /\ wpc' = [wpc EXCEPT ![w] = "idle"]
             /\ wtask' = wtask
             /\ hist'.ran = hist.ran
             /\ hist'.reports = hist.reports
      /\ hist'.nullResults # hist.nullResults =>
           /\ hist'.nullResults = hist.nullResults + 1
           /\ completed_tasks' = completed_tasks
           /\ failed_tasks' = failed_tasks
           /\ hist'.nresult = hist.nresult
    ]_vars

C14_Witness ==
  /\ hist.nullResults > 0
  /\ runner = "parallel"
  /\ \E t \in hist.undeserialized :
       /\ t \notin completed_tasks \cup failed_tasks
       /\ \E w \in DOMAIN wpc : wpc[w] = "run" /\ wtask[w] > t

\* the positions 0 .. n-1 in order
Upto(n) == [k \in 1 .. n |-> k - 1]

\* the actions of the task in hand that raise, by index
FailingActions == {k \in 0 .. Len(exec.task.actions) - 1 : exec.task.actions[k + 1]}
FailingTargets == {k \in 0 .. Len(exec.task.targets) - 1 : exec.task.targets[k + 1].raises}

Min(S) == CHOOSE x \in S : \A y \in S : x <= y

\* C15: the executor runs the actions in declared order; when action i fails no
\* later action is run, no compare() is evaluated, and the result returned has
\* the task's task_no, an error that names action index i, and null dep_keys
\* and dep_compares.
C15_StopsAtFailedAction ==
  exec.pc # "none" =>
    /\ \E n \in 0 .. Len(exec.task.actions) : exec.ranActions = Upto(n)
    /\ FailingActions # {} =>
         /\ Len(exec.ranActions) <= Min(FailingActions) + 1
         /\ exec.compared = << >>
         /\ exec.pc = "returned" =>
              /\ exec.ranActions = Upto(Min(FailingActions) + 1)
              /\ exec.result.task_no = exec.task.task_no
              /\ exec.result.error = [kind |-> "action", at |-> Min(FailingActions)]
              /\ exec.result.dep_keys = Null
              /\ exec.result.dep_compares = Null

C15_Witness ==
  /\ exec.pc = "returned"
  /\ FailingActions # {}
  /\ Min(FailingActions) > 0
  /\ Min(FailingActions) < Len(exec.task.actions) - 1
  /\ exec.task.targets # << >>
  /\ exec.task.task_no = NTasks - 1

\* C16: the executor returns a result with a null error exactly when no action
\* and no compare() raised; that result has one dep_key and one dep_compare
\* for every target, the name and the fingerprint of the target at the same
\* position. When every action succeeds and a compare() raises, the result has
\* the task's task_no, an error and null dep_keys and dep_compares, also when
\* targets before it compared successfully.
C16_ResultOfTargets ==
  exec.pc = "returned" =>
    LET targets == exec.task.targets
        result == exec.result IN
    /\ (result.error = NoError) <=> (FailingActions = {} /\ FailingTargets = {})
    /\ result.error = NoError =>
         /\ result.task_no = exec.task.task_no
         /\ ~result.dep_keys.null /\ ~result.dep_compares.null
         /\ Len(result.dep_keys.value) = Len(targets)
         /\ Len(result.dep_compares.value) = Len(targets)
         /\ \A k \in 1 .. Len(targets) :
              /\ result.dep_keys.value[k] = targets[k].name
              /\ result.dep_compares.value[k] = <<targets[k].name, "fingerprint">>
    /\ (FailingActions = {} /\ FailingTargets # {}) =>
         /\ result.task_no = exec.task.task_no
         /\ result.error = [kind |-> "target", at |-> Min(FailingTargets)]
         /\ result.dep_keys = Null
         /\ result.dep_compares = Null
         /\ exec.compared = Upto(Min(FailingTargets) + 1)

C16_Witness ==
  /\ exec.pc = "returned"
  /\ exec.result.error = NoError
  /\ exec.result.dep_keys.value = <<"b", "a">>
  /\ exec.task.actions # << >>

Max(S) == CHOOSE x \in S : \A y \in S : x >= y

\* the calls of add_worker that passed default=true, and those that named n
DefaultCalls == {k \in 1 .. Len(calls) : calls[k].default}
CallsNaming(n) == {k \in 1 .. Len(calls) : calls[k].name = n}

\* C17: after any sequence of add_worker calls default_worker is unset when no
\* call passed default=true and otherwise the name of the last call that did
\* (so a call with default=false leaves it as it is), and every registered
\* name maps to the worker class and rate of the last call that named it.
C17_LastRegistrationWins ==
  /\ default_worker = (IF DefaultCalls = {} THEN "none" ELSE calls[Max(DefaultCalls)].name)
  /\ DOMAIN worker_config = {calls[k].name : k \in 1 .. Len(calls)}
  /\ \A n \in DOMAIN worker_config :
       LET last == calls[Max(CallsNaming(n))] IN
       worker_config[n] = <<last.worker_class, last.rate>>

C17_Witness ==
  /\ Len(calls) = 3
  /\ calls[1].default /\ calls[2].default /\ ~calls[3].default
  /\ calls[1].name # calls[2].name
  /\ calls[3].name = calls[2].name
  /\ worker_config[calls[2].name] # <<calls[2].worker_class, calls[2].rate>>

IndependentTasks == 0 .. (NIndependent - 1)

\* C18: in the parallel runner with no more mutually independent tasks than
\* workers, every payload is put in the first fill pass: no result is handled
\* while a task is still to be put, and when the coordinator waits for a
\* result every task has been put.
C18_AllPutInFirstPass ==
  /\ (\E t \in IndependentTasks : hist.sent[t] = 0) =>
       /\ cpc \in {"run_tasks", "fill", "pass", "raised"}
       /\ \A t \in Tasks : hist.nresult[t] = 0
       /\ hist.nullResults = 0
       /\ ~started
  /\ cpc = "wait" => \A t \in IndependentTasks : hist.sent[t] = 1

C18_Witness ==
  /\ cpc = "wait"
  /\ \A t \in Tasks : hist.nresult[t] = 0
  /\ hist.nullResults = 0
  /\ \A t \in IndependentTasks : \E w \in DOMAIN wpc : wpc[w] = "run" /\ wtask[w] = t

\* C19: in the serial runner, whatever the order of the deque, no task's
\* actions run before every predecessor of the task is completed (a task
\* popped with an unfinished predecessor is pushed back, not executed).
C19_SerialDefers ==
  \A e \in Edges : hist.ran[e[2]] > 0 => e[1] \in completed_tasks

\* C20: hard termination of a thread-backed pool completes: while the
\* coordinator holds the mutex of the pool's work queue in _terminate_qq, the
\* coordinator or a worker can take a step.
C20_ThreadTerminationCompletes ==
  (\E p \in DOMAIN rlock : ~IsProc(p) /\ rlock[p] = Coord) => ENABLED ThreadNext

\* ---------------------------------------------------------------- C21
\* the stop sentinels still on p's work channel, and the workers of p that
\* have left their loop on one
Sentinels(p) == Cardinality({i \in DOMAIN work_q[p] : work_q[p][i].stop})
Stopped(p) == Cardinality({w \in DOMAIN wpc : w[1] = p /\ wpc[w] = "stopped"})

NormalCompletion == cpc \in {"join", "done"} /\ hist.drainStarted = {}

\* cleanup has put one sentinel per worker and nothing else is on the channel;
\* when run_tasks has returned every worker has left on its sentinel and the
\* channels are empty
C21_OnePerWorker ==
  NormalCompletion =>
    \A p \in DOMAIN work_q :
      /\ Sentinels(p) + Stopped(p) = Rate(p)
      /\ Sentinels(p) = Len(work_q[p])
      /\ cpc = "done" => work_q[p] = << >> /\ Stopped(p) = Rate(p)

\* the step of a worker that leaves its loop takes one sentinel from the head
\* of its channel, puts no result and makes no observable event
C21_SilentStop ==
  \A w \in DOMAIN wpc :
    (wpc[w] # "stopped" /\ wpc'[w] = "stopped") =>
      /\ Head(work_q[w[1]]).stop
      /\ work_q'[w[1]] = Tail(work_q[w[1]])
      /\ result_q' = result_q
      /\ hist' = hist

\* C21: after normal completion (n_to_do reached 0, no terminate()) cleanup
\* has put exactly one stop sentinel per worker on each work channel; every
\* worker consumes exactly one, recognises it before deserializing, emits no
\* result and no reporter event for it, leaves its loop and is joined, and
\* the work channels end up empty.
C21_CleanupSentinels == [](C21_OnePerWorker) /\ [][C21_SilentStop]_vars

C21_Witness ==
  /\ cpc = "done"
  /\ hist.drainStarted = {}
  /\ \A t \in Tasks : hist.ran[t] = 1
  /\ \A w \in DOMAIN wpc : wpc[w] = "stopped"
  /\ runner = "grid"

\* ---------------------------------------------------------------- C22
\* the order in which pop() yields the elements of a deque
PopOrder(q) == [i \in 1 .. Len(q) |-> q[Len(q) + 1 - i]]

\* the coordinator is inside a fill pass (or has left it by an exception)
InPass == cpc \in {"pass", "put", "raised"}

\* C22: the coordinator of ParallelLocalRunner and GridRunner begins at most
\* one fill pass per result receive; the pass pops the tasks that were in the
\* deque when it began, each exactly once and in pop order, and when it is
\* over the coordinator waits on the result channel(s) without popping a
\* deferred task again.
C22_OnePassPerReceive ==
  /\ hist.passes <= 1
  /\ Len(hist.passPops) <= Len(hist.passStart)
  /\ \A i \in 1 .. Len(hist.passPops) : hist.passPops[i] = PopOrder(hist.passStart)[i]
  /\ cpc \in {"pass", "put"} => Len(hist.passPops) = Len(hist.passStart) - passLeft
  /\ ~InPass => Len(hist.passPops) = Len(hist.passStart)

C22_Witness ==
  /\ cpc \in {"wait", "sleep"}
  /\ hist.passes = 1
  /\ \E t \in Tasks : hist.nresult[t] = 1
  /\ Len(hist.passStart) = 2
  /\ Len(task_idx_deque) = 1

\* ---------------------------------------------------------------- C23
\* C23: a second call of run_tasks on the same ParallelLocalRunner or
\* GridRunner, made after the first call completed normally, is served: while
\* its coordinator waits for a result, a result is queued or a worker can
\* take a step towards one, so the call's tasks are executed and it returns.
C23_SecondCallServed ==
  (hist.again /\ cpc \in {"wait", "sleep"}) =>
    (\E p \in DOMAIN result_q : result_q[p] # << >>) \/ ENABLED Worker

\* ---------------------------------------------------------------- C24
\* C24: without quit_early, after a worker has failed to deserialize the
\* payload of a task, run_tasks still returns: whenever the coordinator then
\* waits for a result, one is queued or a worker can take a step towards one,
\* also while tasks that depend on that task are in the deque.
C24_ReturnsAfterUndeserializable ==
  (~quit_early /\ hist.undeserialized # {} /\ cpc \in {"wait", "sleep"}) =>
    (\E p \in DOMAIN result_q : result_q[p] # << >>) \/ ENABLED Worker

\* ---------------------------------------------------------------- C25
\* C25: during one run_tasks call the payload of each task is put on a work
\* channel at most once and at most one result carrying its task_no is passed
\* to _handle_task_result, so no task is made terminal twice and no task is
\* in both completed_tasks and failed_tasks.
C25_TerminalOnce ==
  /\ \A t \in Tasks : hist.sent[t] <= 1 /\ hist.nresult[t] <= 1
  /\ completed_tasks \cap failed_tasks = {}

C25_Witness ==
  /\ runner = "parallel"
  /\ cpc = "done"
  /\ \A t \in Tasks : hist.nresult[t] = 1
  /\ \E t \in Tasks : hist.sent[t] = 1 /\ t \in failed_tasks
  /\ \E t \in Tasks : hist.sent[t] = 1 /\ t \in completed_tasks

\* ---------------------------------------------------------------- C26
\* the workers that have reported their task as running and not yet put its
\* result
Running == {w \in DOMAIN wpc : wpc[w] \in {"command", "run"}}

\* C26 as stated: in ParallelLocalRunner and in GridRunner alike, a worker has
\* reported a task as running only after _handle_task_started of that task.
C26_Original == \A w \in Running : hist.nstarted[wtask[w]] >= 1

\* C26: in ParallelLocalRunner _handle_task_started(idx) happens before the
\* worker's reporter.task_running(idx) in every interleaving; in GridRunner
\* the payload is put before _handle_task_started is called, a worker may
\* report the task as running first, and _handle_task_started(idx) precedes
\* only the handling of the result of idx.
C26_StartedBeforeRunning ==
  /\ runner = "parallel" => \A w \in Running : hist.nstarted[wtask[w]] = 1
  /\ runner = "grid" =>
       \A t \in Tasks : hist.ran[t] >= 1 /\ hist.nresult[t] >= 1 => hist.startedAtResult[t] = 1

C26_Witness ==
  /\ runner = "parallel"
  /\ \E w \in Running : wpc[w] = "command" /\ hist.nstarted[wtask[w]] = 1
  /\ \E t \in Tasks : hist.ran[t] = 1 /\ hist.nresult[t] = 1 /\ hist.startedAtResult[t] = 1

\* ---------------------------------------------------------------- C27
\* the argument list the claim describes: the normal one, followed by the
\* process count when num_process > 0
IntendedArgs(c) ==
  NormalArgs(c) \o (IF c.num_process > 0 THEN <<Arg("num_process", c.num_process)>> ELSE << >>)

\* C27: for every num_process, Run._execute constructs the runner from the
\* normal argument list, extended for num_process > 0 by the process count
\* and nothing else; the list passed to the runner class does not contain
\* the list itself.
C27_RunnerArguments ==
  cmd.pc = "run_all" =>
    /\ cmd.passed = IntendedArgs(cmd)
    /\ \A i \in DOMAIN cmd.passed : cmd.passed[i][1] # "run_args"

\* ---------------------------------------------------------------- C28
\* the place of task t in the pop order of the deque run_tasks was called with
InitialPlace(t) == CHOOSE i \in 1 .. Len(SeededDeque) : PopOrder(SeededDeque)[i] = t

\* the tasks of a are distinct and in the order the initial deque pops them
SubsequenceOfInitial(a) ==
  \A i, j \in 1 .. Len(a) : i < j => InitialPlace(a[i]) < InitialPlace(a[j])

\* the elements of a sequence
Range(a) == {a[i] : i \in 1 .. Len(a)}

\* C28: a fill pass keeps the tasks it defers in their relative pop order:
\* between fill passes the pop order of the deque is a subsequence of the pop
\* order of the initial deque; the deque being seeded in reverse topological
\* order, a pass examines a task only after it has examined every
\* predecessor of the task that was in the deque when the pass began.
C28_DeferralKeepsOrder ==
  /\ ~InPass => SubsequenceOfInitial(PopOrder(task_idx_deque))
  /\ \A i \in 1 .. Len(hist.passPops) :
       \A u \in predecessors(hist.passPops[i]) \cap Range(hist.passStart) :
         \E k \in 1 .. (i - 1) : hist.passPops[k] = u

C28_Witness ==
  /\ cpc \in {"wait", "sleep"}
  /\ hist.passPops = PopOrder(SeededDeque)
  /\ Len(task_idx_deque) >= 2
  /\ \E i \in 1 .. Len(hist.passPops) :
       predecessors(hist.passPops[i]) \cap Range(task_idx_deque) # {}
====
